---------------------------- MODULE Spec2Model ----------------------------
(***************************************************************************)
(* Model of astrosyo-backend, api/observe-tonight.js: the sliding-window   *)
(* optimizer (computeBestWindow), the night summarizer (summarizeTonight), *)
(* the target scorer (pickTargets), the lazily loaded Messier catalog      *)
(* (loadMessier) and the request handler that strings them together.       *)
(*                                                                         *)
(* Numbers.  JavaScript numbers are modelled exactly, as integers in a     *)
(* fixed unit or as fractions [n, d]:                                      *)
(*   cloud cover        integer percent                                    *)
(*   precipitation      tenths of a millimetre                             *)
(*   wind speed         integer km/h                                       *)
(*   altitude           hundredths of a degree                             *)
(*   magnitude, size    tenths                                             *)
(*   target score       1/2400 of a point before rounding, tenths after    *)
(* A fraction with d = 0 stands for NaN (0/0).  Binary floating-point      *)
(* rounding error is not modelled.                                         *)
(***************************************************************************)
EXTENDS Integers, Sequences, FiniteSets, TLC

VARIABLES
    weather,        \* the forecast object handed to the pure functions
    hours,          \* computeBestWindow's `hours` argument
    windowHours,    \* computeBestWindow's `windowHours` argument
    best_window,    \* what computeBestWindow returned
    tonight,        \* what summarizeTonight returned
    messier,        \* the catalog pickTargets scores (what loadMessier returns)
    sky,            \* sky[k]: the altitude altitudeDeg returns for messier[k]
    apertureMm,     \* pickTargets' apertureMm argument
    max,            \* pickTargets' max argument
    targets,        \* what pickTargets returned
    req,            \* req[r]: the state of request r in the handler
    MESSIER_CACHE,  \* the module-level catalog cache
    file,           \* data/messier.json as it is on disk
    fileReads,      \* how many times fs.readFileSync returned the file's text
    cacheWrites     \* how many times MESSIER_CACHE was assigned

pureVars == <<weather, hours, windowHours, best_window, tonight>>
targetVars == <<messier, sky, apertureMm, max, targets>>
handlerVars == <<req, MESSIER_CACHE, file, fileReads, cacheWrites>>
vars == <<pureVars, targetVars, handlerVars>>

---------------------------------------------------------------------------
(* Bounds of the model *)

MaxLen == 3         \* longest hourly series given to computeBestWindow
MaxHours == 4       \* largest `hours` argument
MaxWindow == 2      \* largest `windowHours` argument
MaxLenT == 7        \* longest hourly series given to summarizeTonight
MaxCat == 3         \* largest catalog given to pickTargets
MaxMax == 2         \* largest `max` argument of pickTargets
MaxRequests == 2    \* requests in flight in one process

---------------------------------------------------------------------------
(* JavaScript helpers *)

Min(a, b) == IF a < b THEN a ELSE b
Max(a, b) == IF a > b THEN a ELSE b

\* Array.prototype.slice(from, to) for 0 <= from, 0 <= to (0-based, to exclusive).
Slice(arr, from, to) == SubSeq(arr, from + 1, Min(to, Len(arr)))

\* arr[i] with a 0-based index; -1 stands for `undefined` (index out of range).
undefinedEntry == -1
At(arr, i) == IF i >= 0 /\ i < Len(arr) THEN arr[i + 1] ELSE undefinedEntry

RECURSIVE reduceAdd(_)
\* arr.reduce((a, b) => a + b, 0)
reduceAdd(arr) == IF arr = <<>> THEN 0 ELSE arr[1] + reduceAdd(Tail(arr))

\* A JavaScript number as an exact fraction; d = 0 is NaN.
Frac(n, d) == [n |-> n, d |-> d]
IsNaN(x) == x.d = 0
\* x < y and x > y on fractions; any comparison with NaN is false.
Lt(x, y) == x.d > 0 /\ y.d > 0 /\ x.n * y.d < y.n * x.d
Gt(x, y) == Lt(y, x)

\* Math.round(x * scale): rounds half up (towards +infinity); NaN stays NaN.
RoundScaled(x, scale) ==
    IF IsNaN(x) THEN [nan |-> TRUE, v |-> 0]
                ELSE [nan |-> FALSE, v |-> (2 * scale * x.n + x.d) \div (2 * x.d)]

\* avg(arr): arr.reduce(...) / (arr.length || 1)
avg(arr) == Frac(reduceAdd(arr), IF Len(arr) = 0 THEN 1 ELSE Len(arr))
\* sum(arr): arr.reduce(...)
sum(arr) == reduceAdd(arr)

---------------------------------------------------------------------------
(* computeBestWindow(weather, hours, windowHours) *)

\* scoreAt(i): c * 1.0 + p * 100.0 + w * 0.2 with c, w averages and p the sum of
\* the precipitation (here in tenths of a millimetre, so p mm = p / 10).
\* (faulty variant: the precipitation term left out)
scoreAt_dropPrecip(clouds, precip, wind, w, i) ==
    LET c == avg(Slice(clouds, i, i + w))
        v == avg(Slice(wind, i, i + w))
    IN  Frac(5 * c.n * v.d + v.n * c.d, 5 * c.d * v.d)
scoreAt(clouds, precip, wind, w, i) ==
    LET c == avg(Slice(clouds, i, i + w))
        p == sum(Slice(precip, i, i + w))
        v == avg(Slice(wind, i, i + w))
    IN  Frac(5 * c.n * v.d + 50 * p * c.d * v.d + v.n * c.d, 5 * c.d * v.d)

\* `if (s < bestScore)`: a strictly lower score replaces the best so far.
\* (faulty variant: <=, so that the latest of equal scores wins)
Better_orEqual(s, bestScore) == ~Lt(bestScore, s)
Better(s, bestScore) == Lt(s, bestScore)

\* `if (times.length < windowHours) return null;`
\* (faulty variant: lets a series one entry short through)
TooShort_lenient(times, w) == Len(times) < w - 1
TooShort(times, w) == Len(times) < w

RECURSIVE bestLoop(_, _, _, _, _, _, _, _)
\* for (let i = 1; i <= times.length - windowHours; i++) { ... }
bestLoop(times, clouds, precip, wind, w, i, bestI, bestScore) ==
    IF i <= Len(times) - w
    THEN LET s == scoreAt(clouds, precip, wind, w, i)
         IN  IF Better(s, bestScore)
             THEN bestLoop(times, clouds, precip, wind, w, i + 1, i, s)
             ELSE bestLoop(times, clouds, precip, wind, w, i + 1, bestI, bestScore)
    ELSE [bestI |-> bestI, bestScore |-> bestScore]

NoWindow == [kind |-> "null"]
Thrown == [kind |-> "throw"]

computeBestWindow(wx, hrs, w) ==
    IF ~wx.has_hourly THEN Thrown      \* weather.hourly.time: TypeError
    ELSE
    LET times  == Slice(wx.hourly.time, 0, hrs)
        clouds == Slice(wx.hourly.cloud_cover, 0, hrs)
        precip == Slice(wx.hourly.precipitation, 0, hrs)
        wind   == Slice(wx.hourly.wind_speed_10m, 0, hrs)
    IN  IF TooShort(times, w) THEN NoWindow
        ELSE
        LET b == bestLoop(times, clouds, precip, wind, w, 1, 0,
                          scoreAt(clouds, precip, wind, w, 0))
        IN  [kind |-> "window",
             start |-> At(times, b.bestI),
             end |-> At(times, b.bestI + w - 1),
             window_hours |-> w,
             avg_cloud_cover_percent |->
                 RoundScaled(avg(Slice(clouds, b.bestI, b.bestI + w)), 1).v,
             total_precip_mm |-> sum(Slice(precip, b.bestI, b.bestI + w)),
             avg_wind_kmh |->
                 RoundScaled(avg(Slice(wind, b.bestI, b.bestI + w)), 10).v,
             score |-> RoundScaled(b.bestScore, 10).v]

---------------------------------------------------------------------------
(* summarizeTonight(weather) *)

SummaryHours == 6       \* slice(0, 6)
BadCloud == 80          \* avgCloud > 80
BadPrecip == 10         \* totalPrecip > 1 (mm), in tenths
MixedCloud == 50        \* avgCloud > 50

SummarySlice(arr) == Slice(arr, 0, SummaryHours)

\* (faulty variant: >= in place of >)
verdictOf_inclusive(avgCloud, totalPrecip) ==
    IF ~Lt(avgCloud, Frac(BadCloud, 1)) \/ totalPrecip >= BadPrecip THEN "bad"
    ELSE IF ~Lt(avgCloud, Frac(MixedCloud, 1)) THEN "mixed"
    ELSE "ok"
verdictOf(avgCloud, totalPrecip) ==
    IF Gt(avgCloud, Frac(BadCloud, 1)) \/ totalPrecip > BadPrecip THEN "bad"
    ELSE IF Gt(avgCloud, Frac(MixedCloud, 1)) THEN "mixed"
    ELSE "ok"

summarizeTonight(wx) ==
    IF ~wx.has_hourly THEN [kind |-> "throw"]
    ELSE
    LET clouds == SummarySlice(wx.hourly.cloud_cover)
        precip == SummarySlice(wx.hourly.precipitation)
        avgCloud == Frac(reduceAdd(clouds), Len(clouds))
        totalPrecip == reduceAdd(precip)
    IN  [kind |-> "verdict",
         verdict |-> verdictOf(avgCloud, totalPrecip),
         avg_cloud_cover_percent |-> RoundScaled(avgCloud, 1),
         total_precip_mm |-> totalPrecip]

---------------------------------------------------------------------------
(* JavaScript values of optional fields *)

JNum(v) == [t |-> "number", v |-> v]
JUndefined == [t |-> "undefined", v |-> 0]      \* the field is absent
JNull == [t |-> "null", v |-> 0]
JEmpty == [t |-> "string", v |-> 0]             \* the empty string ""
JNaN == [t |-> "NaN", v |-> 0]

\* Number(x): a number is itself, undefined is NaN, null and "" are 0.
ToNumber(x) ==
    CASE x.t = "number" -> x
      [] x.t = "undefined" -> JNaN
      [] x.t = "null" -> JNum(0)
      [] x.t = "string" -> JNum(0)
      [] OTHER -> JNaN

\* Number.isFinite(x): true of finite numbers only, without coercion.
NumberIsFinite(x) == x.t = "number"

---------------------------------------------------------------------------
(* pickTargets({ lat, lon, date, apertureMm, max }) *)

MinAltitude == 1500     \* `alt < 15`, in hundredths of a degree
ScoreUnit == 2400       \* unrounded scores are counted in 1/2400 of a point
BonusCap == 4800        \* Math.min(2.0, ...) in score units
ApertureBase == 80      \* (apertureMm - 80) / 80

\* `if (alt < 15) continue;`
\* (faulty variant: the filter applied to the altitude rounded to one decimal)
tooLow_rounded(alt) == RoundScaled(Frac(alt, 100), 10).v < 150
tooLow(alt) == alt < MinAltitude

\* `if (!Number.isFinite(ra) || !Number.isFinite(dec)) continue;`
badCoordinates(o) ==
    \/ ~NumberIsFinite(ToNumber(o.ra_deg))
    \/ ~NumberIsFinite(ToNumber(o.dec_deg))

\* alt * 2.0
altitudeTerm(alt) == alt * 48

\* `if (Number.isFinite(mag)) score += (10 - mag) * 3.0;` with mag = Number(...)
magnitudeTerm(o) ==
    LET mag == ToNumber(o.apparent_magnitude)
    IN  IF NumberIsFinite(mag) THEN (100 - mag.v) * 720 ELSE 0

\* `if (Number.isFinite(apertureMm)) score += Math.min(2.0, (apertureMm - 80) / 80);`
apertureTerm(ap) ==
    IF NumberIsFinite(ap) THEN Min(BonusCap, (ap.v - ApertureBase) * 30) ELSE 0

\* `if (Number.isFinite(major)) score += Math.min(2.0, major / 30);`
sizeTerm(o) ==
    LET major == ToNumber(o.size_major_arcmin)
    IN  IF NumberIsFinite(major) THEN Min(BonusCap, major.v * 8) ELSE 0

\* (o.object_type || "").toLowerCase()
toLowerCase(t) ==
    CASE t = "Globular Cluster" -> "globular cluster"
      [] t = "Open Cluster" -> "open cluster"
      [] t = "Diffuse Nebula" -> "diffuse nebula"
      [] OTHER -> t
\* t.includes(word), for the three words the scorer looks for
includes(t, word) ==
    CASE word = "globular" -> t = "globular cluster"
      [] word = "open cluster" -> t = "open cluster"
      [] word = "nebula" -> t = "diffuse nebula"
      [] OTHER -> FALSE
typeBonus(o) ==
    LET t == toLowerCase(o.object_type)
    IN  (IF includes(t, "globular") THEN 1440 ELSE 0)
        + (IF includes(t, "open cluster") THEN 960 ELSE 0)
        + (IF includes(t, "nebula") THEN 1680 ELSE 0)

rawScore(o, alt, ap) ==
    altitudeTerm(alt) + magnitudeTerm(o) + apertureTerm(ap) + sizeTerm(o) + typeBonus(o)

\* scored.push({ ...o, altitude_deg, score }); idx is the record's place in the
\* catalog (1-based), kept to tell the records apart.
scoredEntry(o, k, alt, ap) ==
    [idx |-> k,
     object |-> o,
     altitude_deg |-> RoundScaled(Frac(alt, 100), 10).v,
     score |-> RoundScaled(Frac(rawScore(o, alt, ap), ScoreUnit), 10).v]

RECURSIVE scoreLoop(_, _, _, _)
\* for (const o of messier) { ... }, from record k on
scoreLoop(cat, alts, ap, k) ==
    IF k > Len(cat) THEN <<>>
    ELSE IF badCoordinates(cat[k]) \/ tooLow(alts[k])
         THEN scoreLoop(cat, alts, ap, k + 1)
         ELSE <<scoredEntry(cat[k], k, alts[k], ap)>> \o scoreLoop(cat, alts, ap, k + 1)

\* the comparator (a, b) => b.score - a.score
\* (faulty variant: ascending order)
compareFn_ascending(a, b) == a.score - b.score
compareFn(a, b) == b.score - a.score

RECURSIVE insertStable(_, _)
\* x put behind every entry the comparator does not order after it
insertStable(sorted, x) ==
    IF sorted = <<>> THEN <<x>>
    ELSE IF compareFn(Head(sorted), x) <= 0
         THEN <<Head(sorted)>> \o insertStable(Tail(sorted), x)
         ELSE <<x>> \o sorted

RECURSIVE sortFrom(_, _)
sortFrom(done, rest) ==
    IF rest = <<>> THEN done ELSE sortFrom(insertStable(done, Head(rest)), Tail(rest))
\* Array.prototype.sort(compareFn): a stable sort
sort(arr) == sortFrom(<<>>, arr)

pickTargets(cat, alts, ap, mx) == Slice(sort(scoreLoop(cat, alts, ap, 1)), 0, mx)

---------------------------------------------------------------------------
(* Forecast inputs *)

\* weather.timezone: an IANA zone name, absent, or a name no zone database has
KnownZone == "Europe/Istanbul"
NoZone == "undefined"
UnknownZone == "Mars/Olympus"

\* An hourly series of n hours drawn by f: time[i] is the ordinal of hour i.  `cut`
\* entries are missing from the end of cloud_cover (a length-mismatched series).
Series(n, f, cut) ==
    [time |-> [k \in 1..n |-> k - 1],
     cloud_cover |-> SubSeq([k \in 1..n |-> f[k][1]], 1, n - cut),
     precipitation |-> [k \in 1..n |-> f[k][2]],
     wind_speed_10m |-> [k \in 1..n |-> f[k][3]]]

EmptyHourly == [time |-> <<>>, cloud_cover |-> <<>>, precipitation |-> <<>>,
                wind_speed_10m |-> <<>>]

\* wx is a forecast of at most maxLen hours, or a body without `hourly`.
IsForecast(wx, maxLen, samples) ==
    \/ \E n \in 0..maxLen : \E f \in [1..n -> samples] : \E cut \in 0..Min(n, 1) :
          wx = [timezone |-> KnownZone, has_hourly |-> TRUE, hourly |-> Series(n, f, cut)]
    \/ wx = [timezone |-> KnownZone, has_hourly |-> FALSE, hourly |-> EmptyHourly]

WellFormed(wx) ==
    /\ wx.has_hourly
    /\ Len(wx.hourly.cloud_cover) = Len(wx.hourly.time)
    /\ Len(wx.hourly.precipitation) = Len(wx.hourly.time)
    /\ Len(wx.hourly.wind_speed_10m) = Len(wx.hourly.time)

\* <<cloud %, precipitation in tenths of mm, wind km/h>>
WindowSamples == {10, 80} \X {0, 5} \X {5, 10}
TonightSamples == ({20, 80, 100} \X {0} \X {5}) \cup ({80} \X {5} \X {5})

NotRun == [kind |-> "none"]

---------------------------------------------------------------------------
(* Catalogs given to pickTargets *)

CatalogRecord(ra, mag, size, type) ==
    [ra_deg |-> ra, dec_deg |-> JNum(0), apparent_magnitude |-> mag,
     size_major_arcmin |-> size, object_type |-> type]

\* Catalog records paired with the altitude (hundredths of a degree) the horizon
\* calculator gives them: just under the floor (14.96), on it, and well above.
ObjectPool ==
    { <<CatalogRecord(JNum(100), mag, JUndefined, ""), alt>> :
          mag \in {JNum(60), JNull, JUndefined}, alt \in {1496, 1500, 4000} }
    \cup { <<CatalogRecord(JUndefined, JNum(60), JUndefined, ""), 4000>>,
           <<CatalogRecord(JNum(100), JEmpty, JNull, "Open Cluster"), 4000>>,
           <<CatalogRecord(JNum(100), JNum(84), JNum(450), "Globular Cluster"), 3990>> }

Apertures == {JUndefined, JNull, JEmpty, JNum(40), JNum(160), JNum(400)}

NoTargetRun ==
    /\ messier = <<>>
    /\ sky = <<>>
    /\ apertureMm = JUndefined
    /\ max = 0
    /\ targets = NotRun

---------------------------------------------------------------------------
(* loadMessier, toDateInWeatherTZ and the request handler *)

HorizonHours == 12      \* computeBestWindow(weather, 12, 2)
DefaultWindow == 2
MaxTargets == 8         \* pickTargets({ ..., max: 8 })
PlanAperture == 150     \* aperture >= 150

EmptyCache == [set |-> FALSE, value |-> <<>>]

\* `if (MESSIER_CACHE) return MESSIER_CACHE;`: null is falsy, any array is truthy.
\* (faulty variant: the cache is never consulted)
cacheHit_never(cache) == FALSE
cacheHit(cache) == cache.set

\* loadMessier(): the value returned (or the throw), the cache afterwards, and
\* whether the file was read and the cache assigned on the way.
loadMessier(cache, f) ==
    IF cacheHit(cache)
    THEN [threw |-> FALSE, value |-> cache.value, cache |-> cache,
          read |-> 0, wrote |-> 0]
    ELSE IF ~f.parses        \* JSON.parse(raw) throws a SyntaxError
    THEN [threw |-> TRUE, value |-> <<>>, cache |-> cache, read |-> 1, wrote |-> 0]
    ELSE [threw |-> FALSE, value |-> f.records,
          cache |-> [set |-> TRUE, value |-> f.records], read |-> 1, wrote |-> 1]

\* The zones DateTime.fromISO can resolve.
IANAZones == {"UTC", KnownZone}

\* toDateInWeatherTZ(isoLocal, tz): the wall-clock time read in zone `tz || "UTC"`;
\* a zone that cannot be resolved gives an invalid DateTime, hence an Invalid Date.
toDateInWeatherTZ(isoLocal, tz) ==
    LET zone == IF tz = NoZone THEN "UTC" ELSE tz
    IN  [local |-> isoLocal, zone |-> zone, valid |-> zone \in IANAZones]

NoDate == [local |-> -1, zone |-> "none", valid |-> FALSE]

\* makeRuleBasedPlan(tonight, equipment): which of the fixed message lists
makeRuleBasedPlan(tn, ap) ==
    IF tn.verdict = "bad" THEN "bad"
    ELSE IF tn.verdict = "mixed" THEN "mixed"
    ELSE IF ap.t = "number" /\ ap.v >= PlanAperture THEN "ok-large"
    ELSE "ok-small"

\* sanitizeAiPlan(await getAiPlan(...)): the plan text, null for an empty answer
sanitizeAiPlan(answer) == IF answer = "text" THEN "text" ELSE "null"

Requests == 1..MaxRequests

NewRequest ==
    [pc |-> "new", status |-> 0, aperture |-> JUndefined,
     weather |-> [timezone |-> NoZone, has_hourly |-> FALSE, hourly |-> EmptyHourly],
     best_window |-> NotRun, date |-> NoDate, altitudes |-> <<>>, catalog |-> NotRun,
     targets |-> NotRun, tonight |-> NotRun, plan |-> "none", ai_plan |-> "none",
     ai_error |-> "null"]

\* let ai_plan = null; let ai_error = null;
\* try { ai_plan = sanitizeAiPlan(await getAiPlan(...)); }
\* catch (e) { ai_error = e?.message || String(e); ai_plan = null; }
\* `threw` tells whether an exception leaves the statement.
\* (faulty variant: the catch block records the error and throws it again)
aiPlanStep_rethrows(q, outcome) ==
    IF outcome = "rejected"
    THEN [threw |-> TRUE, q |-> [q EXCEPT !.ai_plan = "null", !.ai_error = "message"]]
    ELSE [threw |-> FALSE, q |-> [q EXCEPT !.ai_plan = sanitizeAiPlan(outcome)]]
aiPlanStep(q, outcome) ==
    IF outcome = "rejected"
    THEN [threw |-> FALSE, q |-> [q EXCEPT !.ai_plan = "null", !.ai_error = "message"]]
    ELSE [threw |-> FALSE, q |-> [q EXCEPT !.ai_plan = sanitizeAiPlan(outcome)]]

\* res.status(code).json(...): the request is answered
Answer(q, code) == [q EXCEPT !.pc = "done", !.status = code]

\* The forecasts the handler is given: a three-hour series whose best window
\* starts at hour 1, with a known, an absent or an unknown time zone; a one-hour
\* series (no window); and a body without `hourly`.
HandlerForecasts ==
    { [timezone |-> tz, has_hourly |-> TRUE,
       hourly |-> Series(3, <<<<80, 5, 5>>, <<10, 0, 5>>, <<10, 0, 5>>>>, 0)] :
          tz \in {KnownZone, NoZone, UnknownZone} }
    \cup { [timezone |-> KnownZone, has_hourly |-> TRUE,
            hourly |-> Series(1, <<<<80, 0, 5>>>>, 0)],
           [timezone |-> KnownZone, has_hourly |-> FALSE, hourly |-> EmptyHourly] }

\* data/messier.json: an empty catalog, a two-record catalog, or text that does
\* not parse.
CatalogFiles ==
    { [parses |-> TRUE, records |-> <<>>],
      [parses |-> TRUE,
       records |-> << CatalogRecord(JNum(100), JNum(60), JUndefined, ""),
                      CatalogRecord(JNum(200), JNull, JNum(450), "Globular Cluster") >>],
      [parses |-> FALSE, records |-> <<>>] }
\* altitudeDeg(lat, lon, date, ra, dec) for the records of the catalog file, in
\* file order: the sky at the instant `date` denotes.  The same wall-clock time
\* read in another zone is another instant, with another sky.
altitudesAt(date) == IF date.zone = "UTC" THEN <<1400, 4000>> ELSE <<4000, 1400>>
HandlerApertures == {JUndefined, JNum(160)}

NoHandlerRun ==
    /\ req = [r \in Requests |-> NewRequest]
    /\ MESSIER_CACHE = EmptyCache
    /\ file = [parses |-> FALSE, records |-> <<>>]
    /\ fileReads = 0
    /\ cacheWrites = 0

Init ==
    /\ req = [r \in Requests |-> NewRequest]
    /\ MESSIER_CACHE = EmptyCache
    /\ file \in CatalogFiles
    /\ fileReads = 0
    /\ cacheWrites = 0
    /\ NoTargetRun
    /\ weather = [timezone |-> KnownZone, has_hourly |-> FALSE, hourly |-> EmptyHourly]
    /\ hours = 0
    /\ windowHours = 1
    /\ best_window = NotRun
    /\ tonight = NotRun

\* The handler up to `await getWeather(lat, lon)`.
Receive(r) ==
    /\ req[r].pc = "new"
    /\ \E method \in {"POST", "GET"}, latLonAreNumbers \in BOOLEAN,
          ap \in HandlerApertures :
          req' = [req EXCEPT ![r] =
                    IF method # "POST" THEN Answer(@, 405)
                    ELSE IF ~latLonAreNumbers THEN Answer(@, 400)
                    ELSE [@ EXCEPT !.pc = "weather", !.aperture = ap]]
    /\ UNCHANGED <<MESSIER_CACHE, file, fileReads, cacheWrites, pureVars, targetVars>>

\* getWeather rejects (fetch fails or !res.ok): the catch answers 500.
WeatherFails(r) ==
    /\ req[r].pc = "weather"
    /\ req' = [req EXCEPT ![r] = Answer(@, 500)]
    /\ UNCHANGED <<MESSIER_CACHE, file, fileReads, cacheWrites, pureVars, targetVars>>

\* getWeather resolves with wx; the handler runs without yielding up to
\* `await getAiPlan(...)`.
WeatherArrives(r) ==
    /\ req[r].pc = "weather"
    /\ \E wx \in HandlerForecasts :
        LET bw == computeBestWindow(wx, HorizonHours, DefaultWindow)
            hasStart == bw.kind = "window"          \* best_window?.start
            d == IF hasStart THEN toDateInWeatherTZ(bw.start, wx.timezone) ELSE NoDate
            load == IF hasStart THEN loadMessier(MESSIER_CACHE, file)
                    ELSE [threw |-> FALSE, value |-> <<>>, cache |-> MESSIER_CACHE,
                          read |-> 0, wrote |-> 0]
            cat == load.value
            sk == SubSeq(altitudesAt(d), 1, Len(cat))
            \* Astronomy.Horizon throws on an Invalid Date
            horizonThrows == hasStart /\ ~load.threw /\ ~d.valid
                             /\ \E k \in 1..Len(cat) : ~badCoordinates(cat[k])
            tn == summarizeTonight(wx)
            q == req[r]
        IN  /\ MESSIER_CACHE' = load.cache
            /\ fileReads' = fileReads + load.read
            /\ cacheWrites' = cacheWrites + load.wrote
            /\ req' = [req EXCEPT ![r] =
                 IF bw.kind = "throw" THEN Answer([q EXCEPT !.weather = wx], 500)
                 ELSE IF load.threw
                 THEN Answer([q EXCEPT !.weather = wx, !.best_window = bw,
                                       !.date = d], 500)
                 ELSE IF horizonThrows
                 THEN Answer([q EXCEPT !.weather = wx, !.best_window = bw, !.date = d,
                                       !.catalog = [kind |-> "list", list |-> cat]],
                             500)
                 ELSE [q EXCEPT
                         !.pc = "ai",
                         !.weather = wx,
                         !.best_window = bw,
                         !.date = d,
                         !.altitudes = IF hasStart THEN sk ELSE <<>>,
                         !.catalog = IF hasStart THEN [kind |-> "list", list |-> cat]
                                     ELSE NotRun,
                         !.targets = [kind |-> "list", list |->
                                        IF hasStart
                                        THEN pickTargets(cat, sk, q.aperture, MaxTargets)
                                        ELSE <<>>],
                         !.tonight = tn,
                         !.plan = makeRuleBasedPlan(tn, q.aperture)]]
    /\ UNCHANGED <<file, pureVars, targetVars>>

\* getAiPlan settles: an answer, an empty answer, or a rejection (caught);
\* the handler answers 200.  An exception that got past the inner try would
\* reach the handler's own catch, which answers 500.
AiSettles(r) ==
    /\ req[r].pc = "ai"
    /\ \E outcome \in {"text", "empty", "rejected"} :
          LET step == aiPlanStep(req[r], outcome)
          IN  req' = [req EXCEPT ![r] =
                        IF step.threw THEN Answer(step.q, 500)
                                      ELSE Answer(step.q, 200)]
    /\ UNCHANGED <<MESSIER_CACHE, file, fileReads, cacheWrites, pureVars, targetVars>>

Next ==
    \E r \in Requests :
        \/ Receive(r)
        \/ WeatherFails(r)
        \/ WeatherArrives(r)
        \/ AiSettles(r)

Spec == Init /\ [][Next]_vars

---------------------------------------------------------------------------
(* The Express revision of the route: app.post("/observe-tonight") *)

\* summarizeTonight of the Express revision: the same thresholds, the verdicts
\* spelled "Bad", "Mixed" and "OK".
expressSummarizeTonight(wx) ==
    LET tn == summarizeTonight(wx)
    IN  IF tn.kind = "throw" THEN tn
        ELSE [tn EXCEPT !.verdict = CASE tn.verdict = "bad" -> "Bad"
                                      [] tn.verdict = "mixed" -> "Mixed"
                                      [] OTHER -> "OK"]

\* makeRuleBasedPlan of the Express revision
expressRuleBasedPlan(tn, ap) ==
    IF tn.verdict = "Bad" THEN "bad"
    ELSE IF tn.verdict = "Mixed" THEN "mixed"
    ELSE IF ap.t = "number" /\ ap.v >= PlanAperture THEN "ok-large"
    ELSE "ok-small"

\* The route up to `await getWeather(lat, lon)`.
ExpressReceive(r) ==
    /\ req[r].pc = "new"
    /\ \E latLonAreNumbers \in BOOLEAN, ap \in HandlerApertures :
          req' = [req EXCEPT ![r] =
                    IF ~latLonAreNumbers THEN Answer(@, 400)
                    ELSE [@ EXCEPT !.pc = "weather", !.aperture = ap]]
    /\ UNCHANGED <<MESSIER_CACHE, file, fileReads, cacheWrites, pureVars, targetVars>>

\* getWeather rejects: the catch answers 500.
ExpressWeatherFails(r) ==
    /\ req[r].pc = "weather"
    /\ req' = [req EXCEPT ![r] = Answer(@, 500)]
    /\ UNCHANGED <<MESSIER_CACHE, file, fileReads, cacheWrites, pureVars, targetVars>>

\* getWeather resolves; the route runs up to `await getAiPlan(...)`.
ExpressWeatherArrives(r) ==
    /\ req[r].pc = "weather"
    /\ \E wx \in HandlerForecasts :
          LET tn == expressSummarizeTonight(wx)
          IN  req' = [req EXCEPT ![r] =
                        IF tn.kind = "throw" THEN Answer([@ EXCEPT !.weather = wx], 500)
                        ELSE [@ EXCEPT !.pc = "ai", !.weather = wx, !.tonight = tn,
                                       !.plan = expressRuleBasedPlan(tn, req[r].aperture)]]
    /\ UNCHANGED <<MESSIER_CACHE, file, fileReads, cacheWrites, pureVars, targetVars>>

\* try { ai_plan = await getAiPlan(...) } catch (e) { ai_plan = null; ... };
\* then res.json(...), with status 200.  The answer is passed on as it is.
ExpressAiSettles(r) ==
    /\ req[r].pc = "ai"
    /\ \E outcome \in {"text", "empty", "rejected"} :
          req' = [req EXCEPT ![r] =
                    Answer([@ EXCEPT !.ai_plan =
                              IF outcome = "rejected" THEN "null" ELSE outcome], 200)]
    /\ UNCHANGED <<MESSIER_CACHE, file, fileReads, cacheWrites, pureVars, targetVars>>

NextExpress ==
    \E r \in Requests :
        \/ ExpressReceive(r)
        \/ ExpressWeatherFails(r)
        \/ ExpressWeatherArrives(r)
        \/ ExpressAiSettles(r)

SpecExpress == Init /\ [][NextExpress]_vars

---------------------------------------------------------------------------
(* SpecTargets: pickTargets applied to bounded catalogs *)

InitTargets ==
    /\ \E n \in 0..MaxCat : \E f \in [1..n -> ObjectPool] :
          /\ messier = [k \in 1..n |-> f[k][1]]
          /\ sky = [k \in 1..n |-> f[k][2]]
    /\ apertureMm \in Apertures
    /\ max \in 0..MaxMax
    /\ targets = NotRun
    /\ weather = [timezone |-> KnownZone, has_hourly |-> FALSE, hourly |-> EmptyHourly]
    /\ hours = 0
    /\ windowHours = 1
    /\ best_window = NotRun
    /\ tonight = NotRun
    /\ NoHandlerRun

PickTargets ==
    /\ targets = NotRun
    /\ targets' = [kind |-> "list", list |-> pickTargets(messier, sky, apertureMm, max)]
    /\ UNCHANGED <<pureVars, messier, sky, apertureMm, max, handlerVars>>

NextTargets == PickTargets

SpecTargets == InitTargets /\ [][NextTargets]_vars

---------------------------------------------------------------------------
(* SpecWindow: computeBestWindow applied to bounded inputs *)

InitWindow ==
    /\ IsForecast(weather, MaxLen, WindowSamples)
    /\ hours \in 0..MaxHours
    /\ windowHours \in 1..MaxWindow
    /\ best_window = NotRun
    /\ tonight = NotRun
    /\ NoTargetRun
    /\ NoHandlerRun

ComputeBestWindow ==
    /\ best_window = NotRun
    /\ best_window' = computeBestWindow(weather, hours, windowHours)
    /\ UNCHANGED <<weather, hours, windowHours, tonight, targetVars, handlerVars>>

NextWindow == ComputeBestWindow

SpecWindow == InitWindow /\ [][NextWindow]_vars

---------------------------------------------------------------------------
(* SpecTonight: summarizeTonight applied to bounded inputs *)

InitTonight ==
    /\ IsForecast(weather, MaxLenT, TonightSamples)
    /\ hours = 0
    /\ windowHours = 1
    /\ best_window = NotRun
    /\ tonight = NotRun
    /\ NoTargetRun
    /\ NoHandlerRun

SummarizeTonight ==
    /\ tonight = NotRun
    /\ tonight' = summarizeTonight(weather)
    /\ UNCHANGED <<weather, hours, windowHours, best_window, targetVars, handlerVars>>

NextTonight == SummarizeTonight

SpecTonight == InitTonight /\ [][NextTonight]_vars



---------------------------------------------------------------------------
(* Properties of computeBestWindow, checked under SpecWindow *)

RECURSIVE SumAt(_, _, _)
\* arr[i] + ... + arr[i + n - 1] (0-based), on a series long enough to hold them
SumAt(arr, i, n) == IF n = 0 THEN 0 ELSE arr[i + 1] + SumAt(arr, i + 1, n - 1)

\* number of entries left after restricting to the first `hours`
Horizon == Min(Len(weather.hourly.time), hours)
\* the valid start indices
ValidStarts == 0..(Horizon - windowHours)
\* score(i) of the specification, as a fraction over 5 * windowHours
SpecScore(i) ==
    Frac(5 * SumAt(weather.hourly.cloud_cover, i, windowHours)
           + 50 * windowHours * SumAt(weather.hourly.precipitation, i, windowHours)
           + SumAt(weather.hourly.wind_speed_10m, i, windowHours),
         5 * windowHours)
SameScore(x, y) == x.n * y.d = y.n * x.d

WindowReturned == best_window # NotRun

\* C1: for a series with at least windowHours entries among its first `hours`,
\* computeBestWindow returns a window whose start is a valid index of minimal
\* score(i) and whose score is that minimum rounded to one decimal.
C1_ScoreIsMinimum ==
    (WindowReturned /\ WellFormed(weather) /\ Horizon >= windowHours) =>
        /\ best_window.kind = "window"
        /\ \E i \in ValidStarts :
              /\ best_window.start = weather.hourly.time[i + 1]
              /\ \A j \in ValidStarts : ~Lt(SpecScore(j), SpecScore(i))
              /\ best_window.score = RoundScaled(SpecScore(i), 10).v

\* a window that starts later than hour 0 because it is strictly better than
\* every earlier one, chosen among at least three starts
C1_Witness ==
    /\ WindowReturned /\ WellFormed(weather) /\ Horizon >= windowHours
    /\ best_window.kind = "window"
    /\ best_window.start = 2
    /\ Cardinality(ValidStarts) >= 3
    /\ \A j \in ValidStarts :
          j # 2 => Lt(SpecScore(2), SpecScore(j))

\* C2: among the start indices whose score equals the minimal score, the window
\* returned starts at the lowest one.
C2_EarliestTieWins ==
    (WindowReturned /\ WellFormed(weather) /\ Horizon >= windowHours) =>
        /\ best_window.kind = "window"
        /\ best_window.start \in ValidStarts
        /\ \A j \in ValidStarts :
              (\A k \in ValidStarts : ~Lt(SpecScore(k), SpecScore(j)))
                  => best_window.start <= j

\* two different starts tie at the minimum, after a worse first hour
C2_Witness ==
    /\ WindowReturned /\ WellFormed(weather) /\ Horizon >= windowHours
    /\ best_window.kind = "window"
    /\ best_window.start = 1
    /\ 2 \in ValidStarts
    /\ SameScore(SpecScore(1), SpecScore(2))
    /\ Lt(SpecScore(1), SpecScore(0))

\* C3: a series with fewer than windowHours entries among its first `hours`
\* makes computeBestWindow return null; it does not throw.
C3_ShortSeriesGivesNull ==
    (WindowReturned /\ weather.has_hourly /\ Horizon < windowHours) =>
        best_window = NoWindow

\* null for a series that is short only because of the `hours` restriction
C3_Witness ==
    /\ WindowReturned /\ weather.has_hourly
    /\ Len(weather.hourly.time) >= windowHours
    /\ hours = windowHours - 1
    /\ best_window = NoWindow

---------------------------------------------------------------------------
(* Properties of summarizeTonight, checked under SpecTonight *)

RECURSIVE SumFirst(_, _)
\* the sum of the first k entries of arr (of all of them when it has fewer)
SumFirst(arr, k) ==
    IF k = 0 \/ arr = <<>> THEN 0 ELSE arr[1] + SumFirst(Tail(arr), k - 1)

CloudCount == Min(Len(weather.hourly.cloud_cover), 6)
CloudSum == SumFirst(weather.hourly.cloud_cover, 6)
PrecipSum == SumFirst(weather.hourly.precipitation, 6)

\* C4: the verdict is a function of the first 6 entries alone: "bad" exactly when
\* their mean cloud cover exceeds 80 or their precipitation exceeds 1 mm,
\* otherwise "mixed" exactly when the mean exceeds 50, otherwise "ok"; all
\* comparisons are strict.
C4_VerdictThresholds ==
    (tonight # NotRun /\ weather.has_hourly) =>
        /\ tonight.kind = "verdict"
        /\ (tonight.verdict = "bad") <=>
               (CloudSum > 80 * CloudCount \/ PrecipSum > 10)
        /\ (tonight.verdict = "mixed") <=>
               (/\ ~(CloudSum > 80 * CloudCount \/ PrecipSum > 10)
                /\ CloudSum > 50 * CloudCount)
        /\ tonight.verdict \in {"bad", "mixed", "ok"}

\* mean cloud exactly 80 and exactly 1 mm over the first six hours, followed by a
\* seventh hour that would tip both: the verdict is "mixed"
C4_Witness ==
    /\ tonight # NotRun /\ WellFormed(weather)
    /\ Len(weather.hourly.time) = 7
    /\ CloudSum = 80 * 6
    /\ PrecipSum = 10
    /\ weather.hourly.precipitation[7] = 5
    /\ tonight.verdict = "mixed"

---------------------------------------------------------------------------
(* Properties of pickTargets, checked under SpecTargets *)

TargetsReturned == targets # NotRun
\* the list returned (empty before the call) and its positions
TargetList == IF TargetsReturned THEN targets.list ELSE <<>>
Listed == 1..Len(TargetList)

\* C5: no catalog object whose altitude is below 15 degrees is in the output.
C5_NoLowTargets ==
    \A i \in Listed : sky[TargetList[i].idx] >= 1500

\* an object at 14.96 degrees (15.0 once rounded) is left out while one at
\* exactly 15 degrees is listed
C5_Witness ==
    /\ TargetsReturned
    /\ \E k \in 1..Len(messier) :
          /\ sky[k] = 1496
          /\ ~badCoordinates(messier[k])
          /\ \A i \in Listed : TargetList[i].idx # k
    /\ \E i \in Listed : sky[TargetList[i].idx] = 1500
    /\ Len(TargetList) < max

\* C6: the output has at most max entries, its scores never increase, and
\* entries of equal score keep their catalog order.
C6_RankedStableAtMostMax ==
    TargetsReturned =>
        /\ Len(TargetList) <= max
        /\ \A i, j \in Listed :
              i < j =>
                  /\ TargetList[i].score >= TargetList[j].score
                  /\ TargetList[i].score = TargetList[j].score
                         => TargetList[i].idx < TargetList[j].idx

\* three objects survive and two are returned: a later, better object first,
\* then the earlier of two equal ones
C6_Witness ==
    /\ TargetsReturned
    /\ max = 2 /\ Len(TargetList) = 2
    /\ Len(messier) = 3
    /\ \A k \in 1..3 : ~badCoordinates(messier[k]) /\ sky[k] >= 1500
    /\ TargetList[1].idx = 2
    /\ TargetList[2].idx = 1
    /\ TargetList[1].score > TargetList[2].score
    /\ rawScore(messier[3], sky[3], apertureMm) = rawScore(messier[1], sky[1], apertureMm)

\* clamp(x, 0, 2.0) of the specification, in score units
ClampBonus(x) == Max(0, Min(4800, x))
\* Whether an optional field is missing: absent, null or empty.
Missing(x) == x.t \in {"undefined", "null", "string"}

\* C7: the aperture term added to every listed target's score is
\* clamp((aperture_mm - 80) / 80, 0, 2.0) for a finite aperture.
C7_ApertureTermClamped ==
    \A i \in Listed :
        LET o == messier[TargetList[i].idx]
            alt == sky[TargetList[i].idx]
            term == IF NumberIsFinite(apertureMm)
                    THEN ClampBonus((apertureMm.v - 80) * 30) ELSE 0
        IN  TargetList[i].score =
                RoundScaled(Frac(altitudeTerm(alt) + magnitudeTerm(o) + term
                                   + sizeTerm(o) + typeBonus(o), 2400), 10).v

\* C8: a missing magnitude, angular size or aperture (absent, null or empty)
\* contributes exactly 0 to a listed target's score.
C8_MissingFieldOmitted ==
    \A i \in Listed :
        LET o == messier[TargetList[i].idx]
            alt == sky[TargetList[i].idx]
            m == IF Missing(o.apparent_magnitude) THEN 0 ELSE magnitudeTerm(o)
            a == IF Missing(apertureMm) THEN 0 ELSE apertureTerm(apertureMm)
            z == IF Missing(o.size_major_arcmin) THEN 0 ELSE sizeTerm(o)
        IN  TargetList[i].score =
                RoundScaled(Frac(altitudeTerm(alt) + m + a + z + typeBonus(o), 2400), 10).v

---------------------------------------------------------------------------
(* Properties of the handler and of loadMessier, checked under Spec *)

\* the requests to which loadMessier returned a catalog
Served == { r \in Requests : req[r].catalog # NotRun }

\* the requests whose window start has been converted to an instant at which a
\* catalog with records in it is to be scored
Converted ==
    { r \in Served : req[r].best_window.kind = "window" /\ req[r].catalog.list # <<>> }

\* C9: when the forecast carries no time zone or an unknown one, converting the
\* window's start fails explicitly: the request is answered with a fault, the
\* timestamp is not read as UTC, and no altitude is computed from it.
C9_ZoneRequired ==
    \A r \in Converted :
        req[r].weather.timezone \in {NoZone, UnknownZone} =>
            /\ req[r].status = 500
            /\ req[r].date.zone # "UTC"
            /\ req[r].altitudes = <<>>

AiFailed == { r \in Requests : req[r].ai_error # "null" }

\* C11: a request whose plan call fails is answered 200 with ai_plan null and
\* with the deterministic fields complete and as the deterministic components
\* compute them from the forecast, the equipment and the catalog: the verdict, the
\* best window, the targets and the rule-based plan.
C11_AiFailureIsNotAnError ==
    \A r \in AiFailed :
        LET q == req[r]
            bw == computeBestWindow(q.weather, 12, 2)
        IN  /\ q.pc = "done"
            /\ q.status = 200
            /\ q.ai_plan = "null"
            /\ q.weather.has_hourly
            /\ q.tonight = summarizeTonight(q.weather)
            /\ q.tonight.kind = "verdict"
            /\ q.best_window = bw
            /\ q.best_window.kind \in {"window", "null"}
            /\ q.targets.kind = "list"
            /\ q.targets.list =
                   IF bw.kind = "window"
                   THEN pickTargets(q.catalog.list, q.altitudes, q.aperture, 8)
                   ELSE <<>>
            /\ q.plan = makeRuleBasedPlan(q.tonight, q.aperture)
            /\ q.plan \in {"bad", "mixed", "ok-large", "ok-small"}

\* a request with a window and a target is answered 200 after its plan call was
\* rejected, while the other request is still waiting for its own plan
C11_Witness ==
    /\ 1 \in AiFailed
    /\ req[1].status = 200
    /\ req[1].best_window.kind = "window"
    /\ Len(req[1].targets.list) = 1
    /\ req[1].plan = "ok-large"
    /\ req[2].pc = "ai"

\* C11 for the Express revision (under SpecExpress): however the plan call
\* settles, the route answers 200 and leaves the verdict, the rule-based plan and
\* the forecast as they were; a rejected call leaves ai_plan null.
C11_ExpressRoute ==
    [][\A r \in Requests :
          (req[r].pc = "ai" /\ req'[r].pc = "done") =>
              /\ req'[r].status = 200
              /\ req'[r].ai_plan \in {"null", "text", "empty"}
              /\ req'[r].tonight = req[r].tonight
              /\ req'[r].tonight.kind = "verdict"
              /\ req'[r].plan = req[r].plan
              /\ req'[r].plan \in {"bad", "mixed", "ok-large", "ok-small"}
              /\ req'[r].weather = req[r].weather]_vars

---------------------------------------------------------------------------
(* Malformed series, checked under SpecTonight and under SpecWindow *)

\* an hourly series that is empty, or whose four sequences differ in length
Malformed ==
    /\ weather.has_hourly
    /\ \/ Len(weather.hourly.time) = 0
       \/ ~WellFormed(weather)

\* C12: given an empty hourly series, or one whose four sequences differ in
\* length, summarizeTonight and computeBestWindow report a fault: neither returns
\* a verdict, a window or null.
C12_MalformedSeriesFaults ==
    Malformed =>
        /\ tonight # NotRun => tonight.kind = "throw"
        /\ best_window # NotRun => best_window.kind = "throw"

===========================================================================
